---- MODULE Spec2Model ----
(***************************************************************************)
(* A model of the data-automation scripts: the Pocket exporter             *)
(* (pocket_to_csv.py), the Google Takeout driver                           *)
(* (dropbox_takeout_to_csv.py) and the Pocket cleanup pass                 *)
(* (untag_pocket.py), the tagger (pocket_tagger.py) and the metadata       *)
(* fetcher (yt_history_fetch_metadata.py).                                 *)
(*                                                                         *)
(* Every script is a standalone batch job: a behaviour of the model is a   *)
(* sequence of invocations of ONE script (variable script, chosen in       *)
(* Init) against the files it persists and the service it talks to.        *)
(***************************************************************************)
EXTENDS Integers, Sequences, FiniteSets, TLC

(***************************************************************************)
(* Bounds of the model.                                                    *)
(***************************************************************************)
\* Invocations of the script in one behaviour.
MaxRuns == 2
\* Items the Pocket account can hold.
MaxItems == 5
\* The wall clock runs from 1 to MaxTime.
MaxTime == 2
\* self.items_per_page is 30 in the source (pocket_to_csv.py line 17); the
\* fetch loop only compares page lengths with it, so the model scales the
\* page down to keep several pages within MaxItems.
items_per_page == 2
\* SpecMerge: the items of one export_to_csv batch, and the calls in a row.
MaxBatch == 2
MaxMerges == 2

VARIABLES
    script,          \* the script this process runs
    pc,              \* the position in the script
    exit,            \* "running", "normal" (the interpreter ends with status 0),
                     \* "exception" (an exception left the entry point) or
                     \* "killed" (the process was stopped)
    runs,            \* invocations started so far
    failure,         \* the step that raised in this invocation, or "none"
    now,             \* the wall clock, time.time()
    \* ---- pocket_to_csv.py
    server,          \* the Pocket account: a sequence of raw items
    timestamp_file,  \* '<csv>.timestamp': <<>> when absent, else <<t>>
    csv_file,        \* the file at csv_path
    temp_file,       \* the NamedTemporaryFile of export_to_csv
    same_fs,         \* whether tempfile.gettempdir() is on csv_path's filesystem
    since,           \* fetch_new_items: since (<<>> is None)
    current_time,    \* fetch_new_items: current_time
    all_items,       \* fetch_new_items: all_items
    offset,          \* fetch_new_items: offset
    has_more,        \* fetch_new_items: has_more
    existing_items,  \* export_to_csv: existing_items (an insertion-ordered dict)
    \* ---- history variables of the exporter (not read by the program)
    ts_before,       \* timestamp_file when the invocation started
    csv_before,      \* csv_file when export_to_csv started
    csv_new,         \* the content export_to_csv is putting at csv_path
    requests,        \* the offsets fetch_page was called with, in order
    pages,           \* the pages fetch_page returned, in order
    \* ---- dropbox_takeout_to_csv.py
    archives,            \* the takeout-*.zip files of dropbox_dir, by name
    processed_pkl,       \* processed_takeouts.pkl
    youtube_history_csv, \* the file at output_csv
    temp_extract,        \* whether the directory '.temp_extract' exists
    unprocessed_files,   \* main: unprocessed_files
    processed_files,     \* main: processed_files
    latest_file,         \* main: latest_file (<<>> before it is set)
    history_data,        \* process_youtube_history: history_data
    \* ---- history variable of the takeout driver
    processed_before,    \* processed_pkl when the invocation started
    \* ---- untag_pocket.py
    account,         \* the Pocket account: item id -> favorite, state, tags
    untag_items,     \* clean_and_unfavorite_items: items
    untag_actions,   \* clean_and_unfavorite_items: actions
    \* ---- history variable of the cleanup
    account_before,  \* account when the invocation started
    \* ---- pocket_tagger.py (it works on account too)
    articles,        \* item id -> the item's resolved_url, "missing" without one
    tagger_tags,     \* main: tags
    response,        \* process_pocket_items: response['list'] as a sequence
    actions,         \* process_pocket_items: actions
    item_index,      \* process_pocket_items: the position of the for loop
    attempt,         \* extract_article_text: attempt
    extraction_log,  \* history: <<item_id, attempts, outcome>> of every
                     \* extract_article_text call on the fetched items
    \* ---- yt_history_fetch_metadata.py
    history_csv,     \* youtube_history.csv: [exists, videoId], the videoId column
    metadata_csv,    \* youtube_metadata.csv: [exists, videoId], the videoId column
    cache_file,      \* youtube_metadata_cache.pkl: [exists, corrupt, keys]
    metadata_cache,  \* self.metadata_cache: its keys in insertion order
    video_ids,       \* _get_video_metadata: video_ids
    batch_start,     \* _get_video_metadata: i
    results,         \* _get_video_metadata: the videoId of each result
    batch_log        \* history: <<batch, outcome>> of every request of the run

exporter_vars == <<server, timestamp_file, csv_file, temp_file, same_fs, since,
                   current_time, all_items, offset, has_more, existing_items,
                   ts_before, csv_before, csv_new, requests, pages>>

takeout_vars == <<archives, processed_pkl, youtube_history_csv, temp_extract,
                  unprocessed_files, processed_files, latest_file, history_data,
                  processed_before>>

untag_vars == <<account, untag_items, untag_actions, account_before>>

tagger_vars == <<articles, tagger_tags, response, actions, item_index, attempt,
                 extraction_log>>

\* The variables of the other scripts, which an action of one script leaves alone.
metadata_vars == <<history_csv, metadata_csv, cache_file, metadata_cache, video_ids,
                   batch_start, results, batch_log>>

non_exporter_vars == <<takeout_vars, untag_vars, tagger_vars, metadata_vars>>
non_takeout_vars == <<exporter_vars, untag_vars, tagger_vars, metadata_vars>>
non_untag_vars == <<exporter_vars, takeout_vars, tagger_vars, metadata_vars>>
\* The tagger changes account, which is among untag_vars.
non_tagger_vars == <<exporter_vars, takeout_vars, untag_items, untag_actions, metadata_vars>>
non_metadata_vars == <<exporter_vars, takeout_vars, untag_vars, tagger_vars>>

vars == <<script, pc, exit, runs, failure, now, exporter_vars, takeout_vars, untag_vars,
          tagger_vars, metadata_vars>>

Min(a, b) == IF a < b THEN a ELSE b

Range(s) == {s[i] : i \in DOMAIN s}

RECURSIVE Concat(_)
\* The concatenation of a sequence of sequences.
Concat(ss) == IF ss = <<>> THEN <<>> ELSE Head(ss) \o Concat(Tail(ss))

(***************************************************************************)
(* Text is a sequence of one-character strings.                            *)
(***************************************************************************)
Digit(i) == <<"0", "1", "2", "3", "4", "5", "6", "7", "8", "9">>[i + 1]

quotechar == "\""
escapechar == "\\"

Whitespace == {" ", "\t", "\n", "\r"}

RECURSIVE SplitWords(_, _)
\* str.split(): the maximal runs of non-whitespace characters of s; cur is the
\* run being read.
SplitWords(s, cur) ==
    IF s = <<>> THEN (IF cur = <<>> THEN <<>> ELSE <<cur>>)
    ELSE IF Head(s) \in Whitespace
         THEN (IF cur = <<>> THEN <<>> ELSE <<cur>>) \o SplitWords(Tail(s), <<>>)
         ELSE SplitWords(Tail(s), Append(cur, Head(s)))

RECURSIVE JoinWith(_, _)
\* sep.join(words)
JoinWith(sep, words) ==
    IF words = <<>> THEN <<>>
    ELSE IF Len(words) = 1 THEN Head(words)
    ELSE Head(words) \o sep \o JoinWith(sep, Tail(words))

\* clean_text: drop NUL characters, collapse whitespace runs to one space.
clean_text(text) ==
    JoinWith(<<" ">>, SplitWords(SelectSeq(text, LAMBDA c : c # "NUL"), <<>>))

\* format_item: the raw item as a CSV row. Of the 18 columns the model keeps
\* the key and one free-text column; the other columns take the same path
\* through the writer and the reader.
format_item(item) ==
    [Item_ID |-> item.item_id, Given_Title |-> clean_text(item.given_title)]

(***************************************************************************)
(* The csv module as export_to_csv and get_existing_items configure it.    *)
(* A file is [exists, dir, lines]; a line is a sequence of encoded fields, *)
(* the first line being the header.                                        *)
(***************************************************************************)
RECURSIVE EscapeField(_)
\* csv.writer with quoting=QUOTE_ALL, quotechar='"', escapechar='\\' and the
\* default doublequote=True: a quotechar is doubled, an escapechar is
\* prefixed by the escapechar (CPython 3.10 and later).
EscapeField(s) ==
    IF s = <<>> THEN <<>>
    ELSE LET c == Head(s)
         IN  (IF c = quotechar THEN <<quotechar, quotechar>>
              ELSE IF c = escapechar THEN <<escapechar, escapechar>>
              ELSE <<c>>) \o EscapeField(Tail(s))

WriteField(s) == <<quotechar>> \o EscapeField(s) \o <<quotechar>>

RECURSIVE UnescapeField(_)
\* csv.reader with the default doublequote=True and no escapechar: inside a
\* quoted field a doubled quotechar is one quotechar, any other character
\* (a backslash too) is itself.
UnescapeField(s) ==
    IF s = <<>> THEN <<>>
    ELSE IF Len(s) >= 2 /\ s[1] = quotechar /\ s[2] = quotechar
         THEN <<quotechar>> \o UnescapeField(Tail(Tail(s)))
         ELSE <<Head(s)>> \o UnescapeField(Tail(s))

ReadField(f) ==
    IF Len(f) >= 2 /\ f[1] = quotechar /\ f[Len(f)] = quotechar
    THEN UnescapeField(SubSeq(f, 2, Len(f) - 1))
    ELSE f

headers == [Item_ID |-> <<"I", "D">>, Given_Title |-> <<"T">>]

WriteRow(row) == <<WriteField(row.Item_ID), WriteField(row.Given_Title)>>

ReadRow(line) == [Item_ID |-> ReadField(line[1]), Given_Title |-> ReadField(line[2])]

NoFile == [exists |-> FALSE, dir |-> "none", lines |-> <<>>]

\* DictSet keyed by the wrong column.
DictSet_by_title(d, row) ==
    IF \E i \in DOMAIN d : d[i].Given_Title = row.Given_Title
    THEN [i \in DOMAIN d |-> IF d[i].Given_Title = row.Given_Title THEN row ELSE d[i]]
    ELSE Append(d, row)

\* An insertion-ordered dict keyed by 'Item ID', as a sequence of rows with
\* distinct keys: d[key] = row.
DictSet(d, row) ==
    IF \E i \in DOMAIN d : d[i].Item_ID = row.Item_ID
    THEN [i \in DOMAIN d |-> IF d[i].Item_ID = row.Item_ID THEN row ELSE d[i]]
    ELSE Append(d, row)

RECURSIVE DictUpdate(_, _)
\* for item in items: d[item['Item ID']] = item
DictUpdate(d, items) ==
    IF items = <<>> THEN d ELSE DictUpdate(DictSet(d, Head(items)), Tail(items))

\* get_existing_items: {} when the file is absent, else the rows after the
\* header keyed by 'Item ID'.
get_existing_items(file) ==
    IF ~file.exists \/ file.lines = <<>> THEN <<>>
    ELSE DictUpdate(<<>>, [i \in 1..(Len(file.lines) - 1) |-> ReadRow(file.lines[i + 1])])

\* The lines writeheader and writerows put in the temporary file.
TempLines(d) == <<WriteRow(headers)>> \o [i \in DOMAIN d |-> WriteRow(d[i])]

\* export_to_csv, lines 147-152: existing_items after the loop over items.
Overlay(file, items) == DictUpdate(get_existing_items(file), items)

\* export_to_csv as a function: the file at csv_path after a call that
\* completes, given the file before it and the items.
export_to_csv(file, items) ==
    [exists |-> TRUE, dir |-> "csv_dir", lines |-> TempLines(Overlay(file, items))]

(***************************************************************************)
(* The Pocket /v3/get endpoint as fetch_page calls it.                     *)
(***************************************************************************)
\* The items modified since the timestamp (all of them without one: fetch_page
\* sends no 'since' parameter when since is None or 0).
Matching(srv, snc) ==
    IF snc = <<>> \/ snc = <<0>> THEN srv
    ELSE SelectSeq(srv, LAMBDA it : it.time_updated >= snc[1])

\* The page of 'count' items at 'offset'.
ServerPage(srv, snc, off) ==
    LET m == Matching(srv, snc)
    IN  SubSeq(m, off + 1, Min(off + items_per_page, Len(m)))

\* The i-th item saved to the account.
TitleOf(i) ==
    CASE i = 1 -> <<"a">>
      [] i = 2 -> <<"b", escapechar, "c">>
      [] i = 3 -> <<" ", "d", " ", " ", quotechar>>
      [] OTHER -> <<"e">>

RawItem(i, t) == [item_id |-> <<Digit(i)>>, given_title |-> TitleOf(i), time_updated |-> t]


(***************************************************************************)
(* pocket_to_csv.py: the process's memory and the files it keeps.          *)
(***************************************************************************)
\* The memory of the exporter's process before fetch_new_items has run and
\* after the process has ended; temp_file is the temporary file of the running
\* export_to_csv.
ExporterLocalsReset ==
    /\ temp_file' = NoFile
    /\ since' = <<>>
    /\ current_time' = 0
    /\ all_items' = <<>>
    /\ offset' = 0
    /\ has_more' = TRUE
    /\ existing_items' = <<>>
    /\ requests' = <<>>
    /\ pages' = <<>>

\* An invocation starts: the history variables record the files as they are.
ExporterStarts ==
    /\ ts_before' = timestamp_file
    /\ csv_before' = csv_file
    /\ csv_new' = csv_file
    /\ UNCHANGED <<server, timestamp_file, csv_file, temp_file, same_fs, since,
                   current_time, all_items, offset, has_more, existing_items,
                   requests, pages>>

\* The process ends: its memory is gone, its files stay.
ExporterEnds ==
    /\ ExporterLocalsReset
    /\ UNCHANGED <<server, timestamp_file, csv_file, same_fs, ts_before, csv_before,
                   csv_new>>

(***************************************************************************)
(* pocket_to_csv.py                                                        *)
(***************************************************************************)
\* The user saves one more item to Pocket. The account is taken to be quiet
\* while an invocation runs: the pages of one fetch come from one list.
ServerSave ==
    /\ script = "pocket_to_csv"
    /\ exit # "running"
    /\ Len(server) < MaxItems
    /\ server' = Append(server, RawItem(Len(server) + 1, now))
    /\ UNCHANGED <<non_exporter_vars, script, pc, exit, runs, failure, now, timestamp_file, csv_file,
                   temp_file, same_fs, since, current_time, all_items, offset,
                   has_more, existing_items, ts_before, csv_before, csv_new, requests, pages>>

\* get_last_update_time
get_last_update_time == timestamp_file

\* fetch_new_items, lines 75-80.
fetch_new_items_begin ==
    /\ script = "pocket_to_csv" /\ exit = "running"
    /\ pc = "fetch_new_items"
    /\ since' = get_last_update_time
    /\ current_time' = now
    /\ all_items' = <<>>
    /\ offset' = 0
    /\ has_more' = TRUE
    /\ pc' = "while_has_more"
    /\ UNCHANGED <<non_exporter_vars, script, exit, runs, failure, now, server, timestamp_file, csv_file,
                   temp_file, same_fs, existing_items, ts_before, csv_before, csv_new,
                   requests, pages>>

\* has_more with > for >=.
HasMore_strict(items) == Len(items) > items_per_page

\* has_more = len(formatted_items) >= self.items_per_page
HasMore(items) == Len(items) >= items_per_page

\* fetch_page with the timestamp saved page by page, inside the loop.
fetch_page_saving_timestamp ==
    /\ script = "pocket_to_csv" /\ exit = "running"
    /\ pc = "while_has_more"
    /\ has_more
    /\ LET raw == ServerPage(server, since, offset)
           items == [i \in DOMAIN raw |-> format_item(raw[i])]
       IN  /\ all_items' = all_items \o items
           /\ offset' = offset + Len(items)
           /\ has_more' = HasMore(items)
           /\ requests' = Append(requests, offset)
           /\ pages' = Append(pages, items)
           /\ timestamp_file' = IF items # <<>> THEN <<current_time>> ELSE timestamp_file
    /\ UNCHANGED <<non_exporter_vars, script, pc, exit, runs, failure, now, server,
                   csv_file, temp_file, same_fs, since, current_time,
                   existing_items, ts_before, csv_before, csv_new>>

\* One iteration of the while loop: fetch_page answers with a page.
fetch_page ==
    /\ script = "pocket_to_csv" /\ exit = "running"
    /\ pc = "while_has_more"
    /\ has_more
    /\ LET raw == ServerPage(server, since, offset)
           items == [i \in DOMAIN raw |-> format_item(raw[i])]
       IN  /\ all_items' = all_items \o items
           /\ offset' = offset + Len(items)
           /\ has_more' = HasMore(items)
           /\ requests' = Append(requests, offset)
           /\ pages' = Append(pages, items)
    /\ UNCHANGED <<non_exporter_vars, script, pc, exit, runs, failure, now, server, timestamp_file,
                   csv_file, temp_file, same_fs, since, current_time,
                   existing_items, ts_before, csv_before, csv_new>>

\* save_last_update_time
save_last_update_time(timestamp) == timestamp_file' = <<timestamp>>

\* fetch_new_items, lines 91-96, and run, lines 174-178: the loop is over, the
\* timestamp is saved when anything was fetched, and run goes on with the
\* export or has nothing to do.
fetch_new_items_end ==
    /\ script = "pocket_to_csv" /\ exit = "running"
    /\ pc = "while_has_more"
    /\ ~has_more
    /\ IF all_items # <<>>
       THEN save_last_update_time(current_time) /\ pc' = "export_to_csv"
       ELSE UNCHANGED timestamp_file /\ pc' = "return"
    /\ UNCHANGED <<non_exporter_vars, script, exit, runs, failure, now, server, csv_file, temp_file,
                   same_fs, since, current_time, all_items, offset, has_more,
                   existing_items, ts_before, csv_before, csv_new, requests, pages>>

\* export_to_csv, lines 147-152: read the CSV and overlay the new items.
export_to_csv_overlay ==
    /\ script = "pocket_to_csv" /\ exit = "running"
    /\ pc = "export_to_csv"
    /\ existing_items' = Overlay(csv_file, all_items)
    /\ csv_before' = csv_file
    /\ csv_new' = export_to_csv(csv_file, all_items)
    /\ pc' = "write_temp"
    /\ UNCHANGED <<non_exporter_vars, script, exit, runs, failure, now, server,
                   timestamp_file, csv_file, temp_file, same_fs, since, current_time,
                   all_items, offset, has_more, ts_before, requests, pages>>

\* NamedTemporaryFile(mode='w', delete=False, ...) is called without dir=: the
\* file is created in tempfile.gettempdir().
TempDir == "gettempdir"

\* export_to_csv, lines 154-163: the header and every row are written to the
\* temporary file.
export_to_csv_write_temp ==
    /\ script = "pocket_to_csv" /\ exit = "running"
    /\ pc = "write_temp"
    /\ temp_file' = [exists |-> TRUE, dir |-> TempDir, lines |-> TempLines(existing_items)]
    /\ pc' = "move"
    /\ UNCHANGED <<non_exporter_vars, script, exit, runs, failure, now, server, timestamp_file, csv_file,
                   same_fs, since, current_time, all_items, offset, has_more,
                   existing_items, ts_before, csv_before, csv_new, requests, pages>>

\* The write to the temporary file fails part-way (disk full): the file keeps
\* the lines written so far and the exception leaves export_to_csv.
export_to_csv_write_temp_fails ==
    /\ script = "pocket_to_csv" /\ exit = "running"
    /\ pc = "write_temp"
    /\ \E n \in 0..Len(existing_items) :
          temp_file' = [exists |-> TRUE, dir |-> TempDir,
                        lines |-> SubSeq(TempLines(existing_items), 1, n)]
    /\ failure' = "write_temp"
    /\ pc' = "except"
    /\ UNCHANGED <<non_exporter_vars, script, exit, runs, now, server, timestamp_file, csv_file, same_fs,
                   since, current_time, all_items, offset, has_more, existing_items,
                   ts_before, csv_before, csv_new, requests, pages>>

\* shutil.move(temp_file.name, self.csv_path) when os.rename succeeds (source
\* and destination on one filesystem): the destination is replaced at once.
move_rename ==
    /\ script = "pocket_to_csv" /\ exit = "running"
    /\ pc = "move"
    /\ same_fs
    /\ csv_file' = [temp_file EXCEPT !.dir = "csv_dir"]
    /\ temp_file' = NoFile
    /\ pc' = "return"
    /\ UNCHANGED <<non_exporter_vars, script, exit, runs, failure, now, server, timestamp_file, same_fs,
                   since, current_time, all_items, offset, has_more, existing_items,
                   ts_before, csv_before, csv_new, requests, pages>>

\* shutil.move when os.rename raises OSError (another filesystem): copy2 opens
\* the destination for writing, which truncates it.
move_copy_open ==
    /\ script = "pocket_to_csv" /\ exit = "running"
    /\ pc = "move"
    /\ ~same_fs
    /\ csv_file' = [exists |-> TRUE, dir |-> "csv_dir", lines |-> <<>>]
    /\ pc' = "copy"
    /\ UNCHANGED <<non_exporter_vars, script, exit, runs, failure, now, server, timestamp_file, temp_file,
                   same_fs, since, current_time, all_items, offset, has_more,
                   existing_items, ts_before, csv_before, csv_new, requests, pages>>

\* copy2 copies the next piece of the temporary file.
move_copy_write ==
    /\ script = "pocket_to_csv" /\ exit = "running"
    /\ pc = "copy"
    /\ Len(csv_file.lines) < Len(temp_file.lines)
    /\ csv_file' = [csv_file EXCEPT !.lines = Append(@, temp_file.lines[Len(@) + 1])]
    /\ UNCHANGED <<non_exporter_vars, script, pc, exit, runs, failure, now, server, timestamp_file,
                   temp_file, same_fs, since, current_time, all_items, offset,
                   has_more, existing_items, ts_before, csv_before, csv_new, requests, pages>>

\* The copy is complete: shutil.move unlinks the source.
move_copy_unlink ==
    /\ script = "pocket_to_csv" /\ exit = "running"
    /\ pc = "copy"
    /\ Len(csv_file.lines) = Len(temp_file.lines)
    /\ temp_file' = NoFile
    /\ pc' = "return"
    /\ UNCHANGED <<non_exporter_vars, script, exit, runs, failure, now, server, timestamp_file, csv_file,
                   same_fs, since, current_time, all_items, offset, has_more,
                   existing_items, ts_before, csv_before, csv_new, requests, pages>>

\* The steps of the exporter whose I/O can raise: reading the timestamp file,
\* a page request (raise_for_status on a non-success response), writing the
\* timestamp file, reading the CSV, and the steps of shutil.move.
ExporterRaisingSteps == {"fetch_new_items", "while_has_more", "export_to_csv", "move", "copy"}

\* What the failing step is called: in the loop it is the page request while
\* has_more holds, and save_last_update_time after it.
FailureName ==
    IF pc = "while_has_more"
    THEN (IF has_more THEN "fetch_page" ELSE "save_last_update_time")
    ELSE pc

exporter_raise ==
    /\ script = "pocket_to_csv" /\ exit = "running"
    /\ pc \in ExporterRaisingSteps
    /\ pc = "while_has_more" /\ ~has_more => all_items # <<>>
    /\ failure' = FailureName
    /\ requests' = IF pc = "while_has_more" /\ has_more THEN Append(requests, offset) ELSE requests
    /\ pc' = "except"
    /\ UNCHANGED <<non_exporter_vars, script, exit, runs, now, server, timestamp_file, csv_file, temp_file,
                   same_fs, since, current_time, all_items, offset, has_more,
                   existing_items, ts_before, csv_before, csv_new, pages>>

\* run, lines 180-182: the exception is printed and raised again, and leaves
\* the script.
run_except ==
    /\ script = "pocket_to_csv" /\ exit = "running"
    /\ pc = "except"
    /\ exit' = "exception"
    /\ pc' = "end"
    /\ ExporterEnds
    /\ UNCHANGED <<non_exporter_vars, script, runs, failure, now>>

\* run returns and the script ends.
run_return ==
    /\ script = "pocket_to_csv" /\ exit = "running"
    /\ pc = "return"
    /\ exit' = "normal"
    /\ pc' = "end"
    /\ ExporterEnds
    /\ UNCHANGED <<non_exporter_vars, script, runs, failure, now>>

ExporterNext ==
    \/ ServerSave
    \/ fetch_new_items_begin
    \/ fetch_page
    \/ fetch_new_items_end
    \/ export_to_csv_overlay
    \/ export_to_csv_write_temp
    \/ export_to_csv_write_temp_fails
    \/ move_rename
    \/ move_copy_open
    \/ move_copy_write
    \/ move_copy_unlink
    \/ exporter_raise
    \/ run_except
    \/ run_return

(***************************************************************************)
(* dropbox_takeout_to_csv.py                                               *)
(***************************************************************************)
\* The code points of the characters of an archive name.
CharCode(c) ==
    CASE c = "." -> 46 [] c = "0" -> 48 [] c = "1" -> 49 [] c = "2" -> 50
      [] c = "3" -> 51 [] c = "4" -> 52 [] c = "5" -> 53 [] c = "6" -> 54
      [] c = "7" -> 55 [] c = "8" -> 56 [] c = "9" -> 57

\* Python's str comparison a < b: at the first position where the strings
\* differ the code points decide; a proper prefix is smaller.
StrLess(a, b) ==
    \/ \E i \in 1..Min(Len(a), Len(b)) :
          /\ \A j \in 1..(i - 1) : a[j] = b[j]
          /\ CharCode(a[i]) < CharCode(b[i])
    \/ Len(a) < Len(b) /\ \A j \in 1..Len(a) : a[j] = b[j]

\* An archive is known by the part of its path that varies, the suffix of
\* 'takeout-<suffix>.zip'; paths compare as the suffix followed by '.zip'.
PathOf(suffix) == suffix \o <<".">>

RECURSIVE SortedReverse(_)
\* list.sort(reverse=True) of the paths in S.
SortedReverse(S) ==
    IF S = {} THEN <<>>
    ELSE LET m == CHOOSE x \in S : \A y \in S \ {x} : StrLess(PathOf(y), PathOf(x))
         IN  <<m>> \o SortedReverse(S \ {m})

\* The archives the directory can hold.
Suffixes == {<<"1">>, <<"2">>, <<"1", "0">>}

\* What an archive is: a zip with a parsable watch-history.json ("ok"), a file
\* zipfile cannot open ("badzip"), a zip without the member ("nomember"), or a
\* zip whose watch-history.json is not JSON ("badjson").
ArchiveKinds == {"ok", "badzip", "nomember", "badjson"}

\* A URL is a sequence of tokens.
\* extract_video_id: the text after 'watch?v=' up to the next '&', else the
\* last path segment.
RECURSIVE UpTo(_, _)
UpTo(url, sep) ==
    IF url = <<>> \/ Head(url) = sep THEN <<>> ELSE <<Head(url)>> \o UpTo(Tail(url), sep)

RECURSIVE After(_, _)
\* The tokens after the first occurrence of sep.
After(url, sep) ==
    IF url = <<>> THEN <<>>
    ELSE IF Head(url) = sep THEN Tail(url) ELSE After(Tail(url), sep)

RECURSIVE AfterLast(_, _)
AfterLast(url, sep) ==
    IF sep \in Range(url) THEN AfterLast(After(url, sep), sep) ELSE url

extract_video_id(url) ==
    IF "watch?v=" \in Range(url)
    THEN UpTo(After(url, "watch?v="), "&")
    ELSE AfterLast(url, "/")

\* determine_source
determine_source(url) == IF "music.youtube.com" \in Range(url) THEN "music" ELSE "youtube"

\* The entries of the watch-history.json of archive 'takeout-<suffix>.zip': a
\* watch URL, an entry without 'titleUrl', and a YouTube Music short URL.
EntriesOf(suffix) ==
    << [titleUrl |-> <<"https:", "/", "/", "www.youtube.com", "/", "watch?v=", "v">>
                         \o suffix \o <<"&", "t=1">>,
        time |-> <<"t">> \o suffix],
       [time |-> <<"u">> \o suffix],
       [titleUrl |-> <<"https:", "/", "/", "music.youtube.com", "/", "m">> \o suffix,
        time |-> <<"w">> \o suffix] >>

\* process_youtube_history, lines 82-88: the rows written for history_data.
HistoryRows(data) ==
    LET kept == SelectSeq(data, LAMBDA e : "titleUrl" \in DOMAIN e /\ "time" \in DOMAIN e)
    IN  [i \in DOMAIN kept |->
            <<kept[i].time, extract_video_id(kept[i].titleUrl),
              determine_source(kept[i].titleUrl)>>]

\* The lines of the CSV: the header, then the rows.
HistoryLines(data) == <<<<"time", "videoId", "source">>>> \o HistoryRows(data)

NoPickle == [exists |-> FALSE, corrupt |-> FALSE, files |-> {}]

\* The memory of the driver's process before main has run and after it ended.
TakeoutLocalsReset ==
    /\ unprocessed_files' = <<>>
    /\ processed_files' = {}
    /\ latest_file' = <<>>
    /\ history_data' = <<>>

TakeoutStarts ==
    /\ processed_before' = processed_pkl
    /\ UNCHANGED <<archives, processed_pkl, youtube_history_csv, temp_extract,
                   unprocessed_files, processed_files, latest_file, history_data>>

TakeoutEnds ==
    /\ TakeoutLocalsReset
    /\ UNCHANGED <<archives, processed_pkl, youtube_history_csv, temp_extract,
                   processed_before>>

\* find_latest_takeout, lines 44-45: the files not in the processed set.
Unprocessed(dir, processed) == {f \in Suffixes : dir[f] # "absent" /\ f \notin processed}

\* The last file of the sorted list for the first.
LatestFile_last(sorted) == sorted[Len(sorted)]

\* main, line 116: the newest file, first after the descending sort.
LatestFile(sorted) == sorted[1]

\* main, lines 106-117: find_latest_takeout lists the archives and loads the
\* processed set (an absent pickle is the empty set); without unprocessed files
\* main returns, else it sorts them and picks the first.
main_find ==
    /\ script = "dropbox_takeout_to_csv" /\ exit = "running"
    /\ pc = "main"
    /\ ~processed_pkl.corrupt
    /\ LET loaded == IF processed_pkl.exists THEN processed_pkl.files ELSE {}
           sorted == SortedReverse(Unprocessed(archives, loaded))
       IN  /\ processed_files' = loaded
           /\ unprocessed_files' = sorted
           /\ IF sorted = <<>>
              THEN latest_file' = <<>> /\ pc' = "return"
              ELSE latest_file' = LatestFile(sorted) /\ pc' = "process_youtube_history"
    /\ UNCHANGED <<non_takeout_vars, script, exit, runs, failure, now, archives,
                   processed_pkl, youtube_history_csv, temp_extract, history_data,
                   processed_before>>

\* pickle.load raises on a pickle that is not one (anything but
\* FileNotFoundError leaves find_latest_takeout).
main_find_raises ==
    /\ script = "dropbox_takeout_to_csv" /\ exit = "running"
    /\ pc = "main"
    /\ processed_pkl.corrupt
    /\ failure' = "pickle_load"
    /\ pc' = "except"
    /\ UNCHANGED <<non_takeout_vars, script, exit, runs, now, takeout_vars>>

\* process_youtube_history, lines 56-70, on a readable zip that has the
\* member: '.temp_extract' is created and the member extracted into it.
extract_member ==
    /\ script = "dropbox_takeout_to_csv" /\ exit = "running"
    /\ pc = "process_youtube_history"
    /\ archives[latest_file] \in {"ok", "badjson"}
    /\ temp_extract' = TRUE
    /\ pc' = "read_json"
    /\ UNCHANGED <<non_takeout_vars, script, exit, runs, failure, now, archives,
                   processed_pkl, youtube_history_csv, unprocessed_files,
                   processed_files, latest_file, history_data, processed_before>>

\* process_youtube_history, lines 56-70, raising: zipfile.ZipFile cannot read
\* the file, no member ends with watch-history.json (FileNotFoundError), or
\* zip_ref.extract fails after os.makedirs created the directory.
extract_member_raises ==
    /\ script = "dropbox_takeout_to_csv" /\ exit = "running"
    /\ pc = "process_youtube_history"
    /\ \/ /\ archives[latest_file] = "badzip"
          /\ failure' = "zipfile"
          /\ UNCHANGED temp_extract
       \/ /\ archives[latest_file] = "nomember"
          /\ failure' = "no_member"
          /\ UNCHANGED temp_extract
       \/ /\ archives[latest_file] \in {"ok", "badjson"}
          /\ failure' = "extract"
          /\ temp_extract' = TRUE
    /\ pc' = "except"
    /\ UNCHANGED <<non_takeout_vars, script, exit, runs, now, archives, processed_pkl,
                   youtube_history_csv, unprocessed_files, processed_files,
                   latest_file, history_data, processed_before>>

\* process_youtube_history, lines 73-75: json.load of the extracted file.
read_json ==
    /\ script = "dropbox_takeout_to_csv" /\ exit = "running"
    /\ pc = "read_json"
    /\ archives[latest_file] = "ok"
    /\ history_data' = EntriesOf(latest_file)
    /\ pc' = "write_csv"
    /\ UNCHANGED <<non_takeout_vars, script, exit, runs, failure, now, archives,
                   processed_pkl, youtube_history_csv, temp_extract, unprocessed_files,
                   processed_files, latest_file, processed_before>>

\* json.load raises on a file that is not JSON.
read_json_raises ==
    /\ script = "dropbox_takeout_to_csv" /\ exit = "running"
    /\ pc = "read_json"
    /\ archives[latest_file] = "badjson"
    /\ failure' = "json"
    /\ pc' = "except"
    /\ UNCHANGED <<non_takeout_vars, script, exit, runs, now, takeout_vars>>

\* process_youtube_history, lines 78-88: output_csv is opened for writing and
\* the header and the rows are written.
write_csv ==
    /\ script = "dropbox_takeout_to_csv" /\ exit = "running"
    /\ pc = "write_csv"
    /\ youtube_history_csv' = [exists |-> TRUE, lines |-> HistoryLines(history_data)]
    /\ pc' = "rmtree"
    /\ UNCHANGED <<non_takeout_vars, script, exit, runs, failure, now, archives,
                   processed_pkl, temp_extract, unprocessed_files, processed_files,
                   latest_file, history_data, processed_before>>

\* The write fails: open() raises and the file is as it was, or a write raises
\* after open() truncated the file and some lines were written.
write_csv_raises ==
    /\ script = "dropbox_takeout_to_csv" /\ exit = "running"
    /\ pc = "write_csv"
    /\ \/ UNCHANGED youtube_history_csv
       \/ \E n \in 0..(Len(HistoryLines(history_data)) - 1) :
             youtube_history_csv' =
                 [exists |-> TRUE, lines |-> SubSeq(HistoryLines(history_data), 1, n)]
    /\ failure' = "write_csv"
    /\ pc' = "except"
    /\ UNCHANGED <<non_takeout_vars, script, exit, runs, now, archives, processed_pkl,
                   temp_extract, unprocessed_files, processed_files, latest_file,
                   history_data, processed_before>>

\* process_youtube_history, lines 90-94: shutil.rmtree(temp_dir), return True.
rmtree ==
    /\ script = "dropbox_takeout_to_csv" /\ exit = "running"
    /\ pc = "rmtree"
    /\ temp_extract' = FALSE
    /\ pc' = "mark_processed"
    /\ UNCHANGED <<non_takeout_vars, script, exit, runs, failure, now, archives,
                   processed_pkl, youtube_history_csv, unprocessed_files,
                   processed_files, latest_file, history_data, processed_before>>

\* shutil.rmtree raises (a file of the directory cannot be removed).
rmtree_raises ==
    /\ script = "dropbox_takeout_to_csv" /\ exit = "running"
    /\ pc = "rmtree"
    /\ failure' = "rmtree"
    /\ pc' = "except"
    /\ UNCHANGED <<non_takeout_vars, script, exit, runs, now, takeout_vars>>

\* main, line 121: processed_files.add(latest_file)
AddProcessed(processed, latest) == processed \cup {latest}

\* main, lines 119-125: the file is added to the processed set and the set is
\* pickled.
mark_processed ==
    /\ script = "dropbox_takeout_to_csv" /\ exit = "running"
    /\ pc = "mark_processed"
    /\ processed_files' = AddProcessed(processed_files, latest_file)
    /\ processed_pkl' = [exists |-> TRUE, corrupt |-> FALSE, files |-> processed_files']
    /\ pc' = "return"
    /\ UNCHANGED <<non_takeout_vars, script, exit, runs, failure, now, archives,
                   youtube_history_csv, temp_extract, unprocessed_files, latest_file,
                   history_data, processed_before>>

\* Writing the pickle fails: open() raises and the file is as it was, or
\* pickle.dump raises after open() truncated it.
mark_processed_raises ==
    /\ script = "dropbox_takeout_to_csv" /\ exit = "running"
    /\ pc = "mark_processed"
    /\ processed_files' = AddProcessed(processed_files, latest_file)
    /\ \/ UNCHANGED processed_pkl
       \/ processed_pkl' = [exists |-> TRUE, corrupt |-> TRUE, files |-> {}]
    /\ failure' = "pickle_dump"
    /\ pc' = "except"
    /\ UNCHANGED <<non_takeout_vars, script, exit, runs, now, archives,
                   youtube_history_csv, temp_extract, unprocessed_files, latest_file,
                   history_data, processed_before>>

\* A handler that prints the exception and raises it again.
main_except_reraising ==
    /\ script = "dropbox_takeout_to_csv" /\ exit = "running"
    /\ pc = "except"
    /\ exit' = "exception"
    /\ pc' = "end"
    /\ TakeoutEnds
    /\ UNCHANGED <<non_takeout_vars, script, runs, failure, now>>

\* main, lines 135-136: the exception is printed; main returns.
main_except ==
    /\ script = "dropbox_takeout_to_csv" /\ exit = "running"
    /\ pc = "except"
    /\ exit' = "normal"
    /\ pc' = "end"
    /\ TakeoutEnds
    /\ UNCHANGED <<non_takeout_vars, script, runs, failure, now>>

\* main returns and the script ends.
main_return ==
    /\ script = "dropbox_takeout_to_csv" /\ exit = "running"
    /\ pc = "return"
    /\ exit' = "normal"
    /\ pc' = "end"
    /\ TakeoutEnds
    /\ UNCHANGED <<non_takeout_vars, script, runs, failure, now>>

TakeoutNext ==
    \/ main_find
    \/ main_find_raises
    \/ extract_member
    \/ extract_member_raises
    \/ read_json
    \/ read_json_raises
    \/ write_csv
    \/ write_csv_raises
    \/ rmtree
    \/ rmtree_raises
    \/ mark_processed
    \/ mark_processed_raises
    \/ main_except
    \/ main_return

(***************************************************************************)
(* untag_pocket.py                                                         *)
(***************************************************************************)
\* The items of the account.
AccountIds == {"i1", "i2"}

\* Tags: one the tagger added ('*a'), a user's tag ('b'), and a user's tag
\* with the sentinel character elsewhere ('a*').
TagSets ==
    { {}, {<<"*", "a">>}, {<<"*", "a">>, <<"b">>}, {<<"a", "*">>, <<"b">>, <<"*", "a">>} }

RECURSIVE SetToSeq(_)
\* The elements of a set in some order (the order of a dict's keys).
SetToSeq(S) ==
    IF S = {} THEN <<>>
    ELSE LET x == CHOOSE y \in S : TRUE IN <<x>> \o SetToSeq(S \ {x})

\* tag.startswith('*') with the sentinel looked for anywhere in the tag.
StartsWithSentinel_anywhere(tag) == "*" \in Range(tag)

\* tag.startswith('*')
StartsWithSentinel(tag) == Len(tag) >= 1 /\ tag[1] = "*"

RECURSIVE SplitOn(_, _, _)
\* The pieces of s between occurrences of sep; cur is the piece being read.
SplitOn(s, sep, cur) ==
    IF s = <<>> THEN <<cur>>
    ELSE IF Head(s) = sep THEN <<cur>> \o SplitOn(Tail(s), sep, <<>>)
    ELSE SplitOn(Tail(s), sep, Append(cur, Head(s)))

\* The Pocket /v3/get endpoint as get_favorited_items calls it (favorite '1',
\* state 'unread', detailType 'complete'): the matching items with their tags.
get_favorited_items(acct) ==
    SetToSeq({[item_id |-> id, tags |-> SetToSeq(acct[id].tags)] :
                 id \in {i \in AccountIds : acct[i].favorite /\ acct[i].state = "unread"}})

\* clean_and_unfavorite_items, lines 41-57: the two actions of one item.
ItemActions(item) ==
    LET new_tags == SelectSeq(item.tags, LAMBDA tag : ~StartsWithSentinel(tag))
    IN  << [action |-> "tags_replace", item_id |-> item.item_id,
            tags |-> JoinWith(<<",">>, new_tags)],
           [action |-> "unfavorite", item_id |-> item.item_id] >>

\* The Pocket /v3/send endpoint applying one action: tags_replace puts the
\* comma-separated tags in place of the item's tags, tags_add adds them,
\* favorite and unfavorite set and clear the favorite marker.
ApplyAction(acct, a) ==
    CASE a.action = "tags_replace" ->
             [acct EXCEPT ![a.item_id].tags = Range(SplitOn(a.tags, ",", <<>>)) \ {<<>>}]
      [] a.action = "unfavorite" ->
             [acct EXCEPT ![a.item_id].favorite = FALSE]
      [] a.action = "favorite" ->
             [acct EXCEPT ![a.item_id].favorite = TRUE]
      [] a.action = "tags_add" ->
             [acct EXCEPT ![a.item_id].tags = @ \cup (Range(SplitOn(a.tags, ",", <<>>)) \ {<<>>})]

RECURSIVE ApplyActions(_, _)
ApplyActions(acct, as) ==
    IF as = <<>> THEN acct ELSE ApplyActions(ApplyAction(acct, Head(as)), Tail(as))

UntagLocalsReset ==
    /\ untag_items' = <<>>
    /\ untag_actions' = <<>>

UntagStarts ==
    /\ account_before' = account
    /\ UNCHANGED <<account, untag_items, untag_actions>>

UntagEnds ==
    /\ UntagLocalsReset
    /\ UNCHANGED <<account, account_before>>

\* clean_and_unfavorite_items, lines 35-57: the favorited items are fetched;
\* without any the loop ends and the script with it, else the actions of every
\* item are collected.
untag_get ==
    /\ script = "untag_pocket" /\ exit = "running"
    /\ pc = "clean_and_unfavorite_items"
    /\ LET fetched == get_favorited_items(account)
       IN  IF fetched = <<>>
           THEN /\ exit' = "normal"
                /\ pc' = "end"
                /\ UntagLocalsReset
           ELSE /\ untag_items' = fetched
                /\ untag_actions' = Concat([i \in DOMAIN fetched |-> ItemActions(fetched[i])])
                /\ pc' = "modify_items_in_bulk"
                /\ UNCHANGED exit
    /\ UNCHANGED <<non_untag_vars, script, runs, failure, now, account, account_before>>

\* clean_and_unfavorite_items, lines 59-61: the actions are sent and applied,
\* and the loop starts over.
untag_modify ==
    /\ script = "untag_pocket" /\ exit = "running"
    /\ pc = "modify_items_in_bulk"
    /\ account' = ApplyActions(account, untag_actions)
    /\ pc' = "clean_and_unfavorite_items"
    /\ UNCHANGED <<non_untag_vars, script, exit, runs, failure, now, untag_items,
                   untag_actions, account_before>>

\* raise_for_status raises in get_favorited_items or modify_items_in_bulk; no
\* handler is around clean_and_unfavorite_items, and the exception ends the
\* script.
untag_raises ==
    /\ script = "untag_pocket" /\ exit = "running"
    /\ pc \in {"clean_and_unfavorite_items", "modify_items_in_bulk"}
    /\ failure' = IF pc = "modify_items_in_bulk" THEN pc ELSE "get_favorited_items"
    /\ exit' = "exception"
    /\ pc' = "end"
    /\ UntagEnds
    /\ UNCHANGED <<non_untag_vars, script, runs, now>>

UntagNext ==
    \/ untag_get
    \/ untag_modify
    \/ untag_raises

(***************************************************************************)
(* pocket_tagger.py                                                        *)
(***************************************************************************)
max_retries == 3

\* str.lower() on the letters the model uses.
LowerChar(c) == CASE c = "C" -> "c" [] c = "D" -> "d" [] OTHER -> c
Lower(text) == [i \in DOMAIN text |-> LowerChar(text[i])]

RECURSIVE LStrip(_)
LStrip(text) ==
    IF text # <<>> /\ Head(text) \in Whitespace THEN LStrip(Tail(text)) ELSE text

RECURSIVE RStrip(_)
RStrip(text) ==
    IF text # <<>> /\ text[Len(text)] \in Whitespace
    THEN RStrip(SubSeq(text, 1, Len(text) - 1))
    ELSE text

\* str.strip()
Strip(text) == RStrip(LStrip(text))

\* The 'tag' column of pocket_tags.csv.
TagRows == << <<"C", "a", "t", " ">>, <<"d", "o", "g">> >>

\* load_tags: every row's tag, lower-cased and stripped.
load_tags == {Strip(Lower(TagRows[i])) : i \in DOMAIN TagRows}

\* The characters the regular expression class \w matches.
WordChars ==
    {"a", "b", "c", "d", "e", "g", "h", "o", "r", "s", "t", "_"} \cup
    {Digit(i) : i \in 0..9}

\* \b at position p of text (between text[p - 1] and text[p]): one side is a
\* word character and the other is not; beyond the ends there is none.
IsWordAt(text, p) == p \in DOMAIN text /\ text[p] \in WordChars
WordBoundary(text, p) == IsWordAt(text, p - 1) # IsWordAt(text, p)

\* re.search(r'\b' + re.escape(tag) + r'\b', text)
SearchTag(tag, text) ==
    \E i \in 1..(Len(text) - Len(tag) + 1) :
        /\ SubSeq(text, i, i + Len(tag) - 1) = tag
        /\ WordBoundary(text, i)
        /\ WordBoundary(text, i + Len(tag))

\* find_matching_tags: the tags found in the text, each with the sentinel.
find_matching_tags(text, tags) == {<<"*">> \o tag : tag \in {t \in tags : SearchTag(t, text)}}

\* The text newspaper extracts from an item's article.
ArticleText(id) ==
    CASE id = "i1" -> <<"T", "h", "e", " ", "C", "a", "t", " ", "s", "a", "t">>
      [] OTHER -> <<"c", "a", "t", "s", " ", "a", "r", "e", " ", "d", "o", "g", "_">>

\* The resolved_url of an item: none, '', one without scheme and host, and an
\* http URL (a URL is a sequence of tokens).
UrlKinds ==
    {"missing", <<>>, <<"example.com", "/", "a">>, <<"https:", "//", "example.com", "/", "a">>}

\* urlparse(url): the scheme is a leading '<scheme>:' token, the netloc the
\* token after '//'.
UrlScheme(url) == IF Len(url) >= 1 /\ url[1] \in {"http:", "https:"} THEN url[1] ELSE ""
UrlNetloc(url) == IF Len(url) >= 3 /\ url[2] = "//" THEN url[3] ELSE ""

\* process_pocket_items, lines 96-107: the item has a URL with scheme and host.
HasValidUrl(item) ==
    /\ "resolved_url" \in DOMAIN item
    /\ item.resolved_url # <<>>
    /\ UrlScheme(item.resolved_url) # ""
    /\ UrlNetloc(item.resolved_url) # ""

\* One item of the response of /v3/get.
ResponseItem(id) ==
    IF articles[id] = "missing" THEN [item_id |-> id]
    ELSE [item_id |-> id, resolved_url |-> articles[id]]

\* The Pocket /v3/get endpoint as get_pocket_items calls it (state 'unread',
\* favorite '0'): the matching items.
get_pocket_items(acct) ==
    SetToSeq({ResponseItem(id) :
                 id \in {i \in AccountIds : ~acct[i].favorite /\ acct[i].state = "unread"}})

TaggerLocalsReset ==
    /\ tagger_tags' = {}
    /\ response' = <<>>
    /\ actions' = <<>>
    /\ item_index' = 0
    /\ attempt' = 0
    /\ extraction_log' = <<>>

TaggerStarts == UNCHANGED tagger_vars

TaggerEnds ==
    /\ TaggerLocalsReset
    /\ UNCHANGED articles

\* main, lines 143-146: the tags are loaded.
tagger_load_tags ==
    /\ script = "pocket_tagger" /\ exit = "running"
    /\ pc = "load_tags"
    /\ tagger_tags' = load_tags
    /\ pc' = "get_pocket_items"
    /\ UNCHANGED <<non_tagger_vars, script, exit, runs, failure, now, account,
                   account_before, articles, response, actions, item_index, attempt,
                   extraction_log>>

\* load_tags raises (pocket_tags.csv is missing or has no 'tag' column); main
\* has no handler and the exception ends the script.
tagger_load_tags_raises ==
    /\ script = "pocket_tagger" /\ exit = "running"
    /\ pc = "load_tags"
    /\ failure' = "load_tags"
    /\ exit' = "exception"
    /\ pc' = "end"
    /\ TaggerEnds
    /\ UNCHANGED <<non_tagger_vars, script, runs, now, account, account_before>>

\* process_pocket_items, lines 84-92: the items are fetched; without any the
\* loop ends, else the for loop starts with no actions.
tagger_get ==
    /\ script = "pocket_tagger" /\ exit = "running"
    /\ pc = "get_pocket_items"
    /\ LET fetched == get_pocket_items(account)
       IN  /\ response' = fetched
           /\ actions' = <<>>
           /\ item_index' = 1
           /\ extraction_log' = <<>>
           /\ pc' = IF fetched = <<>> THEN "return" ELSE "for_item"
    /\ UNCHANGED <<non_tagger_vars, script, exit, runs, failure, now, account,
                   account_before, articles, tagger_tags, attempt>>

\* process_pocket_items, lines 94-115: the next item of the for loop: it is
\* skipped without a valid URL, else the favorite action is added and the
\* text extraction starts.
tagger_for_item ==
    /\ script = "pocket_tagger" /\ exit = "running"
    /\ pc = "for_item"
    /\ item_index <= Len(response)
    /\ IF HasValidUrl(response[item_index])
       THEN /\ actions' = Append(actions, [action |-> "favorite",
                                           item_id |-> response[item_index].item_id])
            /\ attempt' = 0
            /\ pc' = "extract_article_text"
            /\ UNCHANGED item_index
       ELSE /\ item_index' = item_index + 1
            /\ UNCHANGED <<actions, attempt, pc>>
    /\ UNCHANGED <<non_tagger_vars, script, exit, runs, failure, now, account,
                   account_before, articles, tagger_tags, response, extraction_log>>

\* process_pocket_items, lines 120-131: the tags_add action for the text, if
\* any tag matches.
TagsAddActions(item_id, text, tags) ==
    LET matching_tags == find_matching_tags(text, tags)
    IN  IF matching_tags # {}
        THEN << [action |-> "tags_add", item_id |-> item_id,
                 tags |-> JoinWith(<<",">>, SetToSeq(matching_tags))] >>
        ELSE <<>>

\* extract_article_text, lines 26-29, and process_pocket_items, lines 120-131:
\* the attempt succeeds and the tags found in the text are added.
tagger_extract ==
    /\ script = "pocket_tagger" /\ exit = "running"
    /\ pc = "extract_article_text"
    /\ LET id == response[item_index].item_id
       IN  /\ actions' = actions \o TagsAddActions(id, Lower(ArticleText(id)), tagger_tags)
           /\ extraction_log' = Append(extraction_log, <<id, attempt + 1, "text">>)
    /\ item_index' = item_index + 1
    /\ attempt' = 0
    /\ pc' = "for_item"
    /\ UNCHANGED <<non_tagger_vars, script, exit, runs, failure, now, account,
                   account_before, articles, tagger_tags, response>>

\* An extraction whose last failure is raised to process_pocket_items, where
\* the handler of the loop ends the batch.
tagger_extract_fails_aborting ==
    /\ script = "pocket_tagger" /\ exit = "running"
    /\ pc = "extract_article_text"
    /\ IF attempt = max_retries - 1
       THEN pc' = "return" /\ UNCHANGED attempt
       ELSE attempt' = attempt + 1 /\ UNCHANGED pc
    /\ UNCHANGED <<non_tagger_vars, script, exit, runs, failure, now, account,
                   account_before, articles, tagger_tags, response, actions, item_index,
                   extraction_log>>

\* extract_article_text, lines 30-34: the attempt raises; after the last
\* attempt the text is '' (and the tags found in '' are added), before it
\* the function sleeps and tries again.
tagger_extract_fails ==
    /\ script = "pocket_tagger" /\ exit = "running"
    /\ pc = "extract_article_text"
    /\ IF attempt = max_retries - 1
       THEN /\ actions' = actions \o
                    TagsAddActions(response[item_index].item_id, <<>>, tagger_tags)
            /\ extraction_log' = Append(extraction_log,
                                       <<response[item_index].item_id, attempt + 1, "">>)
            /\ item_index' = item_index + 1
            /\ attempt' = 0
            /\ pc' = "for_item"
       ELSE /\ attempt' = attempt + 1
            /\ UNCHANGED <<actions, item_index, pc, extraction_log>>
    /\ UNCHANGED <<non_tagger_vars, script, exit, runs, failure, now, account,
                   account_before, articles, tagger_tags, response>>

\* process_pocket_items, lines 133-136: after the for loop the actions are
\* sent and applied, if there are any, and the while loop starts over.
tagger_send ==
    /\ script = "pocket_tagger" /\ exit = "running"
    /\ pc = "for_item"
    /\ item_index > Len(response)
    /\ account' = ApplyActions(account, actions)
    /\ pc' = "get_pocket_items"
    /\ UNCHANGED <<non_tagger_vars, script, exit, runs, failure, now, account_before,
                   articles, tagger_tags, response, actions, item_index, attempt,
                   extraction_log>>

\* process_pocket_items, lines 138-140: a request raises (get_pocket_items, or
\* send_batch_actions when there are actions); the exception is printed and
\* the loop ends.
tagger_request_raises ==
    /\ script = "pocket_tagger" /\ exit = "running"
    /\ \/ pc = "get_pocket_items" /\ failure' = "get_pocket_items"
       \/ /\ pc = "for_item" /\ item_index > Len(response) /\ actions # <<>>
          /\ failure' = "send_batch_actions"
    /\ pc' = "return"
    /\ UNCHANGED <<non_tagger_vars, script, exit, runs, now, account, account_before,
                   tagger_vars>>

\* process_pocket_items returns, main returns and the script ends.
tagger_return ==
    /\ script = "pocket_tagger" /\ exit = "running"
    /\ pc = "return"
    /\ exit' = "normal"
    /\ pc' = "end"
    /\ TaggerEnds
    /\ UNCHANGED <<non_tagger_vars, script, runs, failure, now, account, account_before>>

TaggerNext ==
    \/ tagger_load_tags
    \/ tagger_load_tags_raises
    \/ tagger_get
    \/ tagger_for_item
    \/ tagger_extract
    \/ tagger_extract_fails
    \/ tagger_send
    \/ tagger_request_raises
    \/ tagger_return

(***************************************************************************)
(* yt_history_fetch_metadata.py                                            *)
(***************************************************************************)
\* The ids one request may hold (50 in the source, line 52; scaled down as a
\* bound of the model).
ids_per_request == 2

VideoIds == {"v1", "v2", "v3", "v4"}

\* The videos youtube.videos().list returns an item for; a deleted or private
\* video has none.
Listed == VideoIds \ {"v3"}

\* list(new_videos): a set's elements in any order.
ListsOf(S) ==
    LET s == SetToSeq(S)
    IN  {[i \in DOMAIN s |-> f[s[i]]] : f \in Permutations(S)}

\* video_ids[i:i+50]
BatchAt(ids, i) == SubSeq(ids, i + 1, Min(i + ids_per_request, Len(ids)))

\* The ids of response.get('items', []) for a batch.
ResponseIds(batch) == SelectSeq(batch, LAMBDA id : id \in Listed)

\* self.metadata_cache[item['id']] = metadata for every id: a new key goes to
\* the end, an old one keeps its place.
CachePut(cache, ids) == cache \o SelectSeq(ids, LAMBDA id : id \notin Range(cache))

NoCacheFile == [exists |-> FALSE, corrupt |-> FALSE, keys |-> <<>>]

MetadataLocalsReset ==
    /\ metadata_cache' = <<>>
    /\ video_ids' = <<>>
    /\ batch_start' = 0
    /\ results' = <<>>

MetadataStarts ==
    /\ batch_log' = <<>>
    /\ UNCHANGED <<history_csv, metadata_csv, cache_file, metadata_cache, video_ids,
                   batch_start, results>>

MetadataEnds ==
    /\ MetadataLocalsReset
    /\ UNCHANGED <<history_csv, metadata_csv, cache_file, batch_log>>

\* The takeout script rewrites youtube_history.csv between two invocations.
HistoryChanges ==
    /\ script = "yt_history_fetch_metadata" /\ exit # "running"
    /\ runs < MaxRuns
    /\ \E ids \in SUBSET VideoIds :
           history_csv' = [exists |-> TRUE, videoId |-> ids]
    /\ history_csv' # history_csv
    /\ UNCHANGED <<non_metadata_vars, script, pc, exit, runs, failure, now, metadata_csv,
                   cache_file, metadata_cache, video_ids, batch_start, results, batch_log>>

\* __init__ and _load_cache: the cache is the pickled one, or empty without a
\* cache file.
metadata_init ==
    /\ script = "yt_history_fetch_metadata" /\ exit = "running"
    /\ pc = "main"
    /\ ~cache_file.corrupt
    /\ metadata_cache' = IF cache_file.exists THEN cache_file.keys ELSE <<>>
    /\ pc' = "process_history"
    /\ UNCHANGED <<non_metadata_vars, script, exit, runs, failure, now, history_csv,
                   metadata_csv, cache_file, video_ids, batch_start, results, batch_log>>

\* __init__ raises: build fails, or pickle.load fails on a cache file that is
\* not a whole pickle.
metadata_init_raises ==
    /\ script = "yt_history_fetch_metadata" /\ exit = "running"
    /\ pc = "main"
    /\ failure' = IF cache_file.corrupt THEN "load_cache" ELSE "build"
    /\ pc' = "except"
    /\ UNCHANGED <<non_metadata_vars, script, exit, runs, now, metadata_vars>>

\* process_history, lines 96-107: the videos of the history that neither the
\* output CSV nor the cache has.
NewVideos ==
    LET existing_metadata == IF metadata_csv.exists THEN metadata_csv.videoId ELSE {}
    IN  (history_csv.videoId \ existing_metadata) \ Range(metadata_cache)

\* process_history, lines 96-111 and 129-130: without new videos the run is
\* over, else they are listed in some order for _get_video_metadata.
process_history_read ==
    /\ script = "yt_history_fetch_metadata" /\ exit = "running"
    /\ pc = "process_history"
    /\ history_csv.exists
    /\ IF NewVideos = {}
       THEN /\ pc' = "return"
            /\ UNCHANGED video_ids
       ELSE /\ \E order \in ListsOf(NewVideos) : video_ids' = order
            /\ pc' = "get_video_metadata"
    /\ batch_start' = 0
    /\ results' = <<>>
    /\ UNCHANGED <<non_metadata_vars, script, exit, runs, failure, now, history_csv,
                   metadata_csv, cache_file, metadata_cache, batch_log>>

\* process_history, line 102: pd.read_csv raises without the history file.
process_history_read_raises ==
    /\ script = "yt_history_fetch_metadata" /\ exit = "running"
    /\ pc = "process_history"
    /\ ~history_csv.exists
    /\ failure' = "read_csv"
    /\ pc' = "except"
    /\ UNCHANGED <<non_metadata_vars, script, exit, runs, now, metadata_vars>>

\* Where _get_video_metadata goes after the batch at batch_start.
AfterBatch ==
    /\ batch_start' = batch_start + ids_per_request
    /\ pc' = IF batch_start + ids_per_request < Len(video_ids)
             THEN "get_video_metadata" ELSE "to_csv"

\* _get_video_metadata, lines 52-79: one request for the next batch; the
\* records of its items go to the results and to the cache.
get_video_metadata_batch ==
    /\ script = "yt_history_fetch_metadata" /\ exit = "running"
    /\ pc = "get_video_metadata"
    /\ LET batch == BatchAt(video_ids, batch_start)
       IN  /\ results' = results \o ResponseIds(batch)
           /\ metadata_cache' = CachePut(metadata_cache, ResponseIds(batch))
           /\ batch_log' = Append(batch_log, <<batch, "ok">>)
    /\ AfterBatch
    /\ UNCHANGED <<non_metadata_vars, script, exit, runs, failure, now, history_csv,
                   metadata_csv, cache_file, video_ids>>

\* A handler of HttpError that leaves the loop instead of going on with it.
get_video_metadata_HttpError_break ==
    /\ script = "yt_history_fetch_metadata" /\ exit = "running"
    /\ pc = "get_video_metadata"
    /\ batch_log' = Append(batch_log, <<BatchAt(video_ids, batch_start), "HttpError">>)
    /\ batch_start' = batch_start + ids_per_request
    /\ pc' = "to_csv"
    /\ UNCHANGED <<non_metadata_vars, script, exit, runs, failure, now, history_csv,
                   metadata_csv, cache_file, metadata_cache, video_ids, results>>

\* _get_video_metadata, lines 81-83: the request raises HttpError; the batch
\* is skipped.
get_video_metadata_HttpError ==
    /\ script = "yt_history_fetch_metadata" /\ exit = "running"
    /\ pc = "get_video_metadata"
    /\ batch_log' = Append(batch_log, <<BatchAt(video_ids, batch_start), "HttpError">>)
    /\ AfterBatch
    /\ UNCHANGED <<non_metadata_vars, script, exit, runs, failure, now, history_csv,
                   metadata_csv, cache_file, metadata_cache, video_ids, results>>

\* The request raises something that is not an HttpError (a socket error);
\* it leaves _get_video_metadata and process_history.
get_video_metadata_raises ==
    /\ script = "yt_history_fetch_metadata" /\ exit = "running"
    /\ pc = "get_video_metadata"
    /\ batch_log' = Append(batch_log, <<BatchAt(video_ids, batch_start), "raised">>)
    /\ failure' = "execute"
    /\ pc' = "except"
    /\ UNCHANGED <<non_metadata_vars, script, exit, runs, now, history_csv, metadata_csv,
                   cache_file, metadata_cache, video_ids, batch_start, results>>

\* process_history, lines 114-123: the records of the cache, all of them and
\* nothing else, are written over the output CSV.
metadata_to_csv ==
    /\ script = "yt_history_fetch_metadata" /\ exit = "running"
    /\ pc = "to_csv"
    /\ metadata_cache # <<>>
    /\ metadata_csv' = [exists |-> TRUE, videoId |-> Range(metadata_cache)]
    /\ pc' = "save_cache"
    /\ UNCHANGED <<non_metadata_vars, script, exit, runs, failure, now, history_csv,
                   cache_file, metadata_cache, video_ids, batch_start, results, batch_log>>

\* process_history, lines 117-123: with an empty cache the data frame has no
\* columns and selecting them raises KeyError; or the file cannot be written.
metadata_to_csv_raises ==
    /\ script = "yt_history_fetch_metadata" /\ exit = "running"
    /\ pc = "to_csv"
    /\ failure' = IF metadata_cache = <<>> THEN "columns" ELSE "to_csv"
    /\ pc' = "except"
    /\ UNCHANGED <<non_metadata_vars, script, exit, runs, now, metadata_vars>>

\* _save_cache: the cache is pickled to the cache file.
metadata_save_cache ==
    /\ script = "yt_history_fetch_metadata" /\ exit = "running"
    /\ pc = "save_cache"
    /\ cache_file' = [exists |-> TRUE, corrupt |-> FALSE, keys |-> metadata_cache]
    /\ pc' = "return"
    /\ UNCHANGED <<non_metadata_vars, script, exit, runs, failure, now, history_csv,
                   metadata_csv, metadata_cache, video_ids, batch_start, results, batch_log>>

\* _save_cache raises: the cache file cannot be opened for writing.
metadata_save_cache_raises ==
    /\ script = "yt_history_fetch_metadata" /\ exit = "running"
    /\ pc = "save_cache"
    /\ failure' = "save_cache"
    /\ pc' = "except"
    /\ UNCHANGED <<non_metadata_vars, script, exit, runs, now, metadata_vars>>

\* The process is stopped inside pickle.dump: open(..., 'wb') has truncated
\* the cache file and only a part of the pickle is written.
metadata_save_cache_killed ==
    /\ script = "yt_history_fetch_metadata" /\ exit = "running"
    /\ pc = "save_cache"
    /\ cache_file' = [exists |-> TRUE, corrupt |-> TRUE, keys |-> <<>>]
    /\ exit' = "killed"
    /\ pc' = "end"
    /\ MetadataLocalsReset
    /\ UNCHANGED <<non_metadata_vars, script, runs, failure, now, history_csv,
                   metadata_csv, batch_log>>

\* main, lines 140-141: the exception is printed and main returns.
metadata_except ==
    /\ script = "yt_history_fetch_metadata" /\ exit = "running"
    /\ pc = "except"
    /\ exit' = "normal"
    /\ pc' = "end"
    /\ MetadataLocalsReset
    /\ UNCHANGED <<non_metadata_vars, script, runs, failure, now, history_csv,
                   metadata_csv, cache_file, batch_log>>

\* process_history returns and main returns.
metadata_return ==
    /\ script = "yt_history_fetch_metadata" /\ exit = "running"
    /\ pc = "return"
    /\ exit' = "normal"
    /\ pc' = "end"
    /\ MetadataLocalsReset
    /\ UNCHANGED <<non_metadata_vars, script, runs, failure, now, history_csv,
                   metadata_csv, cache_file, batch_log>>

MetadataNext ==
    \/ HistoryChanges
    \/ metadata_init
    \/ metadata_init_raises
    \/ process_history_read
    \/ process_history_read_raises
    \/ get_video_metadata_batch
    \/ get_video_metadata_HttpError
    \/ get_video_metadata_raises
    \/ metadata_to_csv
    \/ metadata_to_csv_raises
    \/ metadata_save_cache
    \/ metadata_save_cache_raises
    \/ metadata_save_cache_killed
    \/ metadata_except
    \/ metadata_return

(***************************************************************************)
(* Process control shared by the scripts.                                  *)
(***************************************************************************)
Scripts == {"pocket_to_csv", "dropbox_takeout_to_csv", "untag_pocket", "pocket_tagger",
            "yt_history_fetch_metadata"}

\* Where the script's entry point starts.
EntryPoint ==
    CASE script = "pocket_to_csv" -> "fetch_new_items"
      [] script = "dropbox_takeout_to_csv" -> "main"
      [] script = "untag_pocket" -> "clean_and_unfavorite_items"
      [] script = "pocket_tagger" -> "load_tags"
      [] script = "yt_history_fetch_metadata" -> "main"

\* The interpreter starts the script (python <script>.py), the first time or
\* again after an earlier invocation has ended.
Invoke ==
    /\ exit # "running"
    /\ runs < MaxRuns
    /\ runs' = runs + 1
    /\ exit' = "running"
    /\ failure' = "none"
    /\ pc' = EntryPoint
    /\ ExporterStarts
    /\ TakeoutStarts
    /\ UntagStarts
    /\ TaggerStarts
    /\ MetadataStarts
    /\ UNCHANGED <<script, now>>

\* The process is stopped (kill, power loss) wherever it is.
Crash ==
    /\ exit = "running"
    /\ exit' = "killed"
    /\ pc' = "end"
    /\ ExporterEnds
    /\ TakeoutEnds
    /\ UntagEnds
    /\ TaggerEnds
    /\ MetadataEnds
    /\ UNCHANGED <<script, runs, failure, now>>

\* The wall clock advances between invocations (only the exporter reads it).
Tick ==
    /\ exit # "running"
    /\ now < MaxTime
    /\ now' = now + 1
    /\ script = "pocket_to_csv"
    /\ UNCHANGED <<script, pc, exit, runs, failure, exporter_vars, non_exporter_vars>>

(***************************************************************************)
(* The specification.                                                      *)
(***************************************************************************)
\* The exporter before its first invocation: no CSV, no timestamp file, and an
\* account of up to MaxItems items.
ExporterInit ==
    /\ server \in {[i \in 1..n |-> RawItem(i, 1)] : n \in 0..MaxItems}
    /\ same_fs \in BOOLEAN

\* The exporter's variables in a behaviour of another script.
ExporterIdle ==
    /\ server = <<>>
    /\ same_fs = TRUE

\* The takeout driver before its first invocation: a directory of archives,
\* nothing processed, no CSV.
TakeoutInit ==
    archives \in [Suffixes -> ArchiveKinds \cup {"absent"}]

TakeoutIdle ==
    archives = [f \in Suffixes |-> "absent"]

\* The account before the cleanup's first invocation: every item favorited or
\* not, unread or archived, with some tags.
UntagInit ==
    account \in [AccountIds -> [favorite : BOOLEAN, state : {"unread", "archive"},
                                tags : TagSets]]

UntagIdle ==
    account = [id \in AccountIds |-> [favorite |-> FALSE, state |-> "unread", tags |-> {}]]

\* The account before the tagger's first invocation: every item favorited or
\* not, unread or archived, with or without a user's tag, and with any of the
\* URLs.
TaggerItems ==
    { [favorite |-> FALSE, state |-> "unread", tags |-> {}],
      [favorite |-> FALSE, state |-> "unread", tags |-> {<<"b">>}],
      [favorite |-> TRUE, state |-> "unread", tags |-> {}],
      [favorite |-> FALSE, state |-> "archive", tags |-> {}] }

TaggerInit ==
    /\ account \in [AccountIds -> TaggerItems]
    /\ articles \in [AccountIds -> UrlKinds]

Init ==
    /\ script \in Scripts
    /\ pc = "end"
    /\ exit = "none"
    /\ runs = 0
    /\ failure = "none"
    /\ now = 1
    /\ IF script = "pocket_to_csv" THEN ExporterInit ELSE ExporterIdle
    /\ timestamp_file = <<>>
    /\ csv_file = NoFile
    /\ temp_file = NoFile
    /\ since = <<>>
    /\ current_time = 0
    /\ all_items = <<>>
    /\ offset = 0
    /\ has_more = TRUE
    /\ existing_items = <<>>
    /\ ts_before = <<>>
    /\ csv_before = NoFile
    /\ csv_new = NoFile
    /\ requests = <<>>
    /\ pages = <<>>
    /\ IF script = "dropbox_takeout_to_csv" THEN TakeoutInit ELSE TakeoutIdle
    /\ processed_pkl = NoPickle
    /\ youtube_history_csv = [exists |-> FALSE, lines |-> <<>>]
    /\ temp_extract = FALSE
    /\ unprocessed_files = <<>>
    /\ processed_files = {}
    /\ latest_file = <<>>
    /\ history_data = <<>>
    /\ processed_before = NoPickle
    /\ CASE script = "untag_pocket" ->
               UntagInit /\ articles = [id \in AccountIds |-> "missing"]
         [] script = "pocket_tagger" -> TaggerInit
         [] OTHER -> UntagIdle /\ articles = [id \in AccountIds |-> "missing"]
    /\ IF script = "yt_history_fetch_metadata"
       THEN history_csv \in {[exists |-> FALSE, videoId |-> {}]} \cup
                            {[exists |-> TRUE, videoId |-> ids] : ids \in SUBSET VideoIds}
       ELSE history_csv = [exists |-> FALSE, videoId |-> {}]
    /\ metadata_csv = [exists |-> FALSE, videoId |-> {}]
    /\ cache_file = NoCacheFile
    /\ metadata_cache = <<>>
    /\ video_ids = <<>>
    /\ batch_start = 0
    /\ results = <<>>
    /\ batch_log = <<>>
    /\ tagger_tags = {}
    /\ response = <<>>
    /\ actions = <<>>
    /\ item_index = 0
    /\ attempt = 0
    /\ extraction_log = <<>>
    /\ untag_items = <<>>
    /\ untag_actions = <<>>
    /\ account_before = account

Next ==
    \/ Invoke
    \/ Crash
    \/ Tick
    \/ ExporterNext
    \/ TakeoutNext
    \/ UntagNext
    \/ TaggerNext
    \/ MetadataNext

Spec == Init /\ [][Next]_vars

(***************************************************************************)
(* export_to_csv as a function of the file and the batch: calls in a row,  *)
(* each with a batch drawn from MergeRows.                                 *)
(***************************************************************************)
\* Rows as format_item makes them: two keys, titles with a quotechar and an
\* escapechar among them.
MergeRows ==
    [Item_ID : {<<"1">>, <<"2">>},
     Given_Title : {<<"a", quotechar>>, <<"b", escapechar, "c">>}]

Batches == UNION {[1..n -> MergeRows] : n \in 1..MaxBatch}

InitMerge ==
    /\ Init
    /\ script = "pocket_to_csv"
    /\ server = <<>>
    /\ same_fs

\* One call export_to_csv(items) that completes.
export_to_csv_call ==
    /\ runs < MaxMerges
    /\ runs' = runs + 1
    /\ \E items \in Batches :
          /\ all_items' = items
          /\ csv_before' = csv_file
          /\ csv_new' = export_to_csv(csv_file, items)
          /\ csv_file' = export_to_csv(csv_file, items)
    /\ UNCHANGED <<non_exporter_vars, script, pc, exit, failure, now, server,
                   timestamp_file, temp_file, same_fs, since, current_time, offset,
                   has_more, existing_items, ts_before, requests, pages>>

NextMerge == export_to_csv_call

SpecMerge == InitMerge /\ [][NextMerge]_vars

(***************************************************************************)
(* The claims.                                                             *)
(***************************************************************************)
\* The steps of export_to_csv, as positions and as names of failures.
ExportSteps == {"export_to_csv", "write_temp", "move", "copy"}

\* C1: the timestamp file is advanced only after export_to_csv has merged the
\* batch: while export_to_csv has not completed (it is running, or it raised)
\* '<csv>.timestamp' holds what it held when the run started.
C1_TimestampKeptUntilMerged ==
    (/\ script = "pocket_to_csv"
     /\ \/ failure \in ExportSteps
        \/ exit = "running" /\ pc \in ExportSteps)
    => timestamp_file = ts_before

\* The failures of archive extraction in process_youtube_history.
ExtractionFailures == {"zipfile", "no_member", "extract", "json"}

\* C2: a failing page request (the first or a later one) leaves the timestamp
\* file as the run found it, and a failing archive extraction leaves
\* processed_takeouts.pkl as the run found it.
C2_FetchFailureKeepsWatermark ==
    /\ (script = "pocket_to_csv" /\ failure = "fetch_page")
           => timestamp_file = ts_before
    /\ (script = "dropbox_takeout_to_csv" /\ failure \in ExtractionFailures)
           => processed_pkl = processed_before

\* A page request fails after an earlier page brought items, with a timestamp
\* file written by an earlier run.
C2_Witness ==
    /\ script = "pocket_to_csv"
    /\ failure = "fetch_page"
    /\ pc = "except"
    /\ Len(requests) >= 2
    /\ all_items # <<>>
    /\ ts_before # <<>>

\* C5: at every step of export_to_csv, and after a stop at any step, the file
\* at csv_path holds the complete prior content or the complete new content.
C5_PriorOrNewContent ==
    script = "pocket_to_csv" => (csv_file = csv_before \/ csv_file = csv_new)

RECURSIVE TotalLen(_)
TotalLen(ps) == IF ps = <<>> THEN 0 ELSE Len(Head(ps)) + TotalLen(Tail(ps))

\* C6: the fetch loop requests the pages at offset 0 and then at the running
\* count of items received, goes on after full pages only, stops right after
\* the first short page within the number of pages the source has, and
\* returns the items of all pages in request order, which are all the items
\* of the source.
C6_PaginationConcatenates ==
    (script = "pocket_to_csv" /\ exit = "running" /\ pc # "fetch_new_items") =>
        LET source == Matching(server, since)
        IN  /\ all_items = Concat(pages)
            /\ offset = Len(all_items)
            /\ \A i \in DOMAIN requests : requests[i] = TotalLen(SubSeq(pages, 1, i - 1))
            /\ \A i \in 1..(Len(pages) - 1) : Len(pages[i]) = items_per_page
            /\ Len(pages) <= (Len(source) \div items_per_page) + 1
            /\ has_more /\ pages # <<>> => Len(pages[Len(pages)]) = items_per_page
            /\ ~has_more =>
                  /\ pages # <<>>
                  /\ Len(pages[Len(pages)]) < items_per_page
                  /\ Len(requests) = Len(pages)
                  /\ all_items = [i \in DOMAIN source |-> format_item(source[i])]

\* The loop has ended after two full pages and a short page of one item.
C6_Witness ==
    /\ script = "pocket_to_csv"
    /\ pc = "export_to_csv"
    /\ Len(pages) >= 3
    /\ pages[Len(pages)] # <<>>
    /\ Len(all_items) = Len(server)

\* The lexicographic order of the paths 'takeout-1.zip' < 'takeout-10.zip' <
\* 'takeout-2.zip', written out.
LexRank(f) == CASE f = <<"1">> -> 1 [] f = <<"1", "0">> -> 2 [] f = <<"2">> -> 3

\* C7: a run of the takeout driver processes one archive, the
\* lexicographically greatest unprocessed one: once main has chosen, latest_file
\* is that archive; the pickle never holds more than the prior set plus that
\* archive; and after a successful run it holds exactly the prior set plus
\* that archive, and the CSV holds that archive's rows.
C7_NewestUnprocessedOnly ==
    script = "dropbox_takeout_to_csv" /\ ~processed_before.corrupt =>
        LET before == processed_before.files
            todo == {f \in Suffixes : archives[f] # "absent" /\ f \notin before}
            newest == CHOOSE f \in todo : \A g \in todo : LexRank(g) <= LexRank(f)
        IN  /\ latest_file # <<>> => latest_file = newest
            /\ ~processed_pkl.corrupt =>
                   processed_pkl.files \in
                       {before} \cup (IF todo = {} THEN {} ELSE {before \cup {newest}})
            /\ (exit = "normal" /\ failure = "none" /\ todo # {}) =>
                   /\ processed_pkl = [exists |-> TRUE, corrupt |-> FALSE,
                                       files |-> before \cup {newest}]
                   /\ youtube_history_csv.lines = HistoryLines(EntriesOf(newest))

\* The spec's scenario with a third archive: takeout-1, takeout-10 and
\* takeout-2 are there, nothing is processed, and the first run ends with
\* exactly {takeout-2.zip} processed.
C7_Witness ==
    /\ script = "dropbox_takeout_to_csv"
    /\ \A f \in Suffixes : archives[f] = "ok"
    /\ runs = 1
    /\ exit = "normal"
    /\ failure = "none"
    /\ processed_pkl.files = {<<"2">>}

\* C8: when process_youtube_history has returned True, or has raised after the
\* directory was created, '.temp_extract' no longer exists.
C8_TempDirRemoved ==
    (/\ script = "dropbox_takeout_to_csv"
     /\ \/ pc = "mark_processed"
        \/ failure \in {"extract", "json", "write_csv"})
    => ~temp_extract

\* The rows read from the lines after the header, and the keys among them.
StoredRows(file) == {ReadRow(file.lines[i]) : i \in 2..Len(file.lines)}
KeysOf(rows) == {r.Item_ID : r \in rows}

\* The last record of items with the key.
LastWithKey(items, key) ==
    items[CHOOSE i \in DOMAIN items :
              /\ items[i].Item_ID = key
              /\ \A j \in DOMAIN items : items[j].Item_ID = key => j <= i]

\* C3: after export_to_csv(items) the store read back maps the keys of the
\* prior store and of items, each once: a key of items to the last record of
\* items with that key, any other key to its prior row.
C3_KeyedOverlay ==
    runs >= 1 =>
        LET prior == StoredRows(csv_before)
            after == StoredRows(csv_file)
            new == KeysOf(Range(all_items))
        IN  /\ KeysOf(after) = KeysOf(prior) \cup new
            /\ Cardinality(KeysOf(after)) = Len(csv_file.lines) - 1
            /\ \A r \in after :
                  IF r.Item_ID \in new
                  THEN r = LastWithKey(all_items, r.Item_ID)
                  ELSE r \in prior

\* The orderings of a sequence.
Orderings(items) ==
    {[i \in DOMAIN items |-> items[f[i]]] : f \in Permutations(DOMAIN items)}

\* Merging p in one call (k = 0) or in two calls, p[1..k] and then the rest.
MergedIn(file, p, k) ==
    IF k = 0 THEN export_to_csv(file, p)
    ELSE export_to_csv(export_to_csv(file, SubSeq(p, 1, k)), SubSeq(p, k + 1, Len(p)))

KeysDecideRecords(items) ==
    \A i, j \in DOMAIN items : items[i].Item_ID = items[j].Item_ID => items[i] = items[j]

C9_CleanupStripsSentinelTags ==
    (script = "untag_pocket" /\ exit = "normal") =>
        \A id \in AccountIds :
            LET b == account_before[id]
                a == account[id]
            IN  /\ ~(a.favorite /\ a.state = "unread")
                /\ IF b.favorite /\ b.state = "unread"
                   THEN a = [b EXCEPT !.favorite = FALSE,
                                      !.tags = {t \in b.tags : t[1] # "*"}]
                   ELSE a = b

\* The cleanup has ended normally after touching an item tagged '*a', 'b' and
\* 'a*' and leaving alone an archived favorite tagged '*a'.
C9_Witness ==
    /\ script = "untag_pocket"
    /\ exit = "normal"
    /\ account_before["i1"] = [favorite |-> TRUE, state |-> "unread",
                               tags |-> {<<"a", "*">>, <<"b">>, <<"*", "a">>}]
    /\ account_before["i2"] = [favorite |-> TRUE, state |-> "archive",
                               tags |-> {<<"*", "a">>}]


(***************************************************************************)
(* C10: as the claim states it: whatever a step of a script raises, the    *)
(* script's driver catches it and the run ends normally: no invocation of  *)
(* any script ends with an exception leaving the driver.                   *)
(***************************************************************************)
C10_NoExceptionLeavesDriver == exit # "exception"

\* The scripts whose driver lets an exception out: PocketExporter.run logs it
\* and raises it again, the cleanup's entry point has no handler.
PropagatingScripts == {"pocket_to_csv", "untag_pocket"}

(***************************************************************************)
(* C10, amended: a run in which a step raised ends normally in the takeout *)
(* script, in the metadata script and, for what is raised inside           *)
(* process_pocket_items, in the tagger; it ends with the exception leaving *)
(* the driver in the exporter, in the cleanup, and in the tagger when      *)
(* load_tags raised.  A run in which nothing raised never ends with an     *)
(* exception.                                                              *)
(***************************************************************************)
C10_CaughtOrPropagated ==
    /\ (exit \in {"normal", "exception"} /\ failure # "none") =>
           (exit = "exception" <=>
               (script \in PropagatingScripts \/ failure = "load_tags"))
    /\ (exit = "exception" => failure # "none")

C10_Witness ==
    /\ script = "dropbox_takeout_to_csv"
    /\ failure = "json"
    /\ exit = "normal"


\* The batches requested so far in the run, and the ids the successful
\* requests brought.
RequestedBatches == [i \in DOMAIN batch_log |-> batch_log[i][1]]
FetchedIds ==
    Concat([i \in DOMAIN batch_log |->
               IF batch_log[i][2] = "ok" THEN ResponseIds(batch_log[i][1]) ELSE <<>>])

\* The cache as __init__ loaded it (the cache file is not written before
\* _save_cache).
LoadedCache == IF cache_file.exists THEN cache_file.keys ELSE <<>>

\* C11 as stated: whatever makes the request of a batch fail, the batch is
\* skipped and the later batches are still requested: a run in which a
\* request failed has requested every batch of video_ids.
C11_AnyFailureSkipped ==
    (/\ script = "yt_history_fetch_metadata"
     /\ pc \in {"to_csv", "except"}
     /\ \E i \in DOMAIN batch_log : batch_log[i][2] # "ok")
    => Concat(RequestedBatches) = video_ids

\* C11 amended: _get_video_metadata requests the ids in consecutive batches
\* of at most ids_per_request, each id in one batch and one request a batch;
\* a batch whose request raises HttpError is skipped and the later batches
\* are still requested; on return the results are the records of the batches
\* that succeeded and the cache holds them after its prior entries.
C11_HttpErrorSkipped ==
    (/\ script = "yt_history_fetch_metadata"
     /\ exit = "running"
     /\ pc \in {"get_video_metadata", "to_csv"})
    => /\ Concat(RequestedBatches) = SubSeq(video_ids, 1, Min(batch_start, Len(video_ids)))
       /\ \A i \in DOMAIN batch_log :
              /\ Len(batch_log[i][1]) \in 1..ids_per_request
              /\ batch_log[i][2] \in {"ok", "HttpError"}
       /\ \A i \in 1..(Len(batch_log) - 1) : Len(batch_log[i][1]) = ids_per_request
       /\ results = FetchedIds
       /\ metadata_cache = LoadedCache \o FetchedIds
       /\ pc = "to_csv" => Concat(RequestedBatches) = video_ids

\* _get_video_metadata has returned after two requests, the first of which
\* raised HttpError and the second of which succeeded, with a cache that an
\* earlier run saved.
C11_Witness ==
    /\ script = "yt_history_fetch_metadata"
    /\ pc = "to_csv"
    /\ Len(batch_log) = 2
    /\ batch_log[1][2] = "HttpError"
    /\ batch_log[2][2] = "ok"
    /\ LoadedCache # <<>>
    /\ results # <<>>


\* The ids of the fetched items that have a valid URL, in the order of the
\* response, and the ids of the extractions logged.
ValidIds(resp) ==
    LET valid == SelectSeq(resp, HasValidUrl)
    IN  [i \in DOMAIN valid |-> valid[i].item_id]
LoggedIds == [i \in DOMAIN extraction_log |-> extraction_log[i][1]]

\* The actions of a kind for an item.
ActionsFor(kind, id) ==
    {i \in DOMAIN actions : actions[i].action = kind /\ actions[i].item_id = id}

\* C12: extract_article_text makes at most max_retries attempts and yields ''
\* when all of them failed; the item then has its favorite action and no
\* tags_add action, the remaining items of the batch are processed all the
\* same (the loop is left only when nothing was fetched or a request
\* raised), and once the batch is sent the item is favorited with the tags it
\* had.
C12_ExtractionFailureKeepsBatch ==
    (script = "pocket_tagger" /\ exit = "running") =>
        /\ attempt \in 0..(max_retries - 1)
        /\ \A i \in DOMAIN extraction_log :
               LET id == extraction_log[i][1]
                   attempts == extraction_log[i][2]
                   text == extraction_log[i][3]
               IN  /\ attempts \in 1..max_retries
                   /\ text = "" => attempts = max_retries
                   /\ pc \in {"for_item", "extract_article_text"} =>
                          /\ Cardinality(ActionsFor("favorite", id)) = 1
                          /\ text = "" => ActionsFor("tags_add", id) = {}
                   /\ (pc = "get_pocket_items" /\ text = "") =>
                          /\ account[id].favorite
                          /\ account[id].tags = account_before[id].tags
        /\ pc = "for_item" => LoggedIds = ValidIds(SubSeq(response, 1, item_index - 1))
        /\ pc = "get_pocket_items" => LoggedIds = ValidIds(response)
        /\ pc = "return" => (response = <<>> \/ failure # "none")

\* A batch of two items has been sent in which every attempt on the first
\* item failed and the second item's text was extracted.
C12_Witness ==
    /\ script = "pocket_tagger"
    /\ exit = "running"
    /\ pc = "get_pocket_items"
    /\ Len(extraction_log) = 2
    /\ extraction_log[1][3] = ""
    /\ extraction_log[2][3] = "text"
    /\ \A id \in AccountIds : account[id].favorite


\* C13: every iteration of the loop of process_pocket_items that does not
\* leave the loop favorites at least one fetched item, so that the next
\* fetch returns strictly fewer items: whenever the loop goes from the end of
\* its for loop back to the fetch, the unread, unfavorited items of the
\* account have become fewer than the items fetched.
C13_IterationShrinksFetch ==
    [][(/\ script = "pocket_tagger"
        /\ pc = "for_item"
        /\ pc' = "get_pocket_items")
       => Len(get_pocket_items(account')) < Len(response)]_vars


\* C14: after any sequence of successful runs of the takeout driver (every run
\* so far has added its archive to the processed set), youtube_history.csv
\* holds the entries of the lexicographically greatest archive processed so
\* far.
C14_CsvHoldsGreatestProcessed ==
    (/\ script = "dropbox_takeout_to_csv"
     /\ exit = "normal"
     /\ failure = "none"
     /\ runs >= 1
     /\ ~processed_pkl.corrupt
     /\ Cardinality(processed_pkl.files) = runs)
    => LET greatest == CHOOSE f \in processed_pkl.files :
                           \A g \in processed_pkl.files : LexRank(g) <= LexRank(f)
       IN  youtube_history_csv.lines = HistoryLines(EntriesOf(greatest))


\* C15: the metadata driver never drops a known video from its output: every
\* videoId the output CSV holds before a step of a run is still in it after
\* the step, whatever the cache file holds and whichever batches fail.
C15_OutputKeepsVideos ==
    [][script = "yt_history_fetch_metadata" =>
           metadata_csv.videoId \subseteq metadata_csv'.videoId]_vars

====
